---- MODULE Spec2Model ----
(***************************************************************************)
(* Model of the clash subscription renewal script (reNewClashSub and the   *)
(* transport chain fetchSubData / fetchSubDataWithHy2Proxy).               *)
(*                                                                         *)
(* Names are modelled as tuples of one-character strings, so that the      *)
(* substring tests of the group reordering (name.includes("G")) are        *)
(* computed on the characters of the name.                                 *)
(***************************************************************************)
EXTENDS Integers, Sequences, FiniteSets, TLC

VARIABLES
    env,                \* process.env and the ossClient argument
    pc,                 \* position of the run inside reNewClashSub / fetchSubData
    result,             \* "running", "resolved" or "rejected": the promise of the run
    loaded,             \* history: the primary document as yaml.load returned it
    content,            \* the full document (yaml.load result, mutated in place)
    onlyHy2Content,     \* the supplemental-only document, or NullDoc
    hy2Proxies,         \* parseHy2Config(HY2_CONFIG): the helper proxy descriptors
    hy2ConfigList,      \* the supplemental proxy records
    fetching,           \* which URL the current fetchSubData call retrieves
    attempts,           \* the strategies the current fetchSubData call has tried, in order
    proxyIdx,           \* loop position of fetchSubDataWithHy2Proxy (1-based)
    fetched,            \* the value the last fetchSubData call returned
    currentHy2Process,  \* the global helper process handle (0 = null)
    alive,              \* the helper processes that are running
    spawned,            \* number of helper processes spawned so far
    written,            \* files written under dist/
    puts,               \* keys handed to ossClient.put, in order
    logged              \* log lines of interest printed so far

vars == <<env, pc, result, loaded, content, onlyHy2Content, hy2Proxies, hy2ConfigList,
          fetching, attempts, proxyIdx, fetched, currentHy2Process, alive,
          spawned, written, puts, logged>>

----------------------------------------------------------------------------
(* Bounds of the model *)

\* longest member list of a routing group in the broad engine inputs
MaxMembers == 4
\* longest base proxy list / supplemental list in the broad engine inputs
MaxProxies == 2
\* most descriptors in HY2_CONFIG
MaxDescriptors == 1

----------------------------------------------------------------------------
(* Names *)

nA == <<"a">>
nB == <<"b">>
nX == <<"x">>
nG == <<"G", "1">>
nE == <<"E", "1">>
DIRECT == <<"D", "I", "R", "E", "C", "T">>
nP == <<"P">>
nPG == <<"P", "G">>

\* JavaScript's undefined, the value of an array read past the end
Undefined == <<"undefined", "value">>

\* name.includes(marker) for a one-character marker
Includes(name, marker) == \E i \in 1..Len(name) : name[i] = marker

----------------------------------------------------------------------------
(* Array helpers *)

\* array.map(({ name }) => name)
NamesOf(list) == [i \in 1..Len(list) |-> list[i].name]

Range(s) == {s[i] : i \in 1..Len(s)}

\* array[i] with a 0-based index: undefined past the end
At(arr, i) == IF i + 1 <= Len(arr) THEN arr[i + 1] ELSE Undefined

Min(a, b) == IF a < b THEN a ELSE b

\* Array.prototype.splice(start, deleteCount, ...items) for 0 <= start
Splice(arr, start, deleteCount, items) ==
    LET s == Min(start, Len(arr))
        d == Min(deleteCount, Len(arr) - s)
    IN  SubSeq(arr, 1, s) \o items \o SubSeq(arr, s + d + 1, Len(arr))

\* mutant of Dedup: the list is not passed through a Set, every occurrence stays
DedupKeepsAll(arr) == arr

RECURSIVE Dedup(_)
\* [...new Set(arr)]: first occurrences, in insertion order
Dedup(arr) ==
    IF arr = <<>> THEN <<>>
    ELSE LET front == Dedup(SubSeq(arr, 1, Len(arr) - 1))
             last == arr[Len(arr)]
         IN  IF last \in Range(front) THEN front ELSE Append(front, last)

----------------------------------------------------------------------------
(* Documents and proxy records *)

\* a Proxy record; server stands for the fields other than the name
ProxyRecord(name, server, skip) ==
    [name |-> name, server |-> server, skipCertVerify |-> skip]

\* a routing group: name and ordered member names
Group(name, proxies) == [name |-> name, proxies |-> proxies]

\* a ClashConfig as yaml.load returns it
Doc(proxies, groups, rules) ==
    [kind |-> "doc", proxies |-> proxies, groups |-> groups, rules |-> rules]

\* yaml.load of a text that holds no mapping with a proxy list (a scalar)
ValueDoc == [kind |-> "value", proxies |-> <<>>, groups |-> <<>>, rules |-> <<>>]

\* null: no document
NullDoc == [kind |-> "null", proxies |-> <<>>, groups |-> <<>>, rules |-> <<>>]

\* one hy2:// descriptor inside HY2_CONFIG; wellFormed: the regex matches it
Descriptor(name, insecure, wellFormed) ==
    [name |-> name, insecure |-> insecure, wellFormed |-> wellFormed]

\* HY2_CONFIG.matchAll(regex): the well-formed descriptors, in textual order
MatchAll(hy2Config) == SelectSeq(hy2Config, LAMBDA d : d.wellFormed)

\* parseHy2Config: the helper proxy configurations
ParseHy2Config(hy2Config) ==
    LET matches == MatchAll(hy2Config)
    IN  [i \in 1..Len(matches) |->
            [name |-> matches[i].name, insecure |-> (matches[i].insecure = "1")]]

\* mutant of DescriptorRecords: skip-cert-verify follows insecure=1, as the
\* insecure field of parseHy2Config does
DescriptorRecordsInsecureOne(hy2Config) ==
    LET matches == MatchAll(hy2Config)
    IN  [i \in 1..Len(matches) |->
            ProxyRecord(matches[i].name, "cfg", matches[i].insecure = "1")]

\* the Proxy records built from HY2_CONFIG inside reNewClashSub
DescriptorRecords(hy2Config) ==
    LET matches == MatchAll(hy2Config)
    IN  [i \in 1..Len(matches) |->
            ProxyRecord(matches[i].name, "cfg", matches[i].insecure = "0")]

----------------------------------------------------------------------------
(* Merge engine *)

\* content.proxies.filter(p => !hy2ConfigList.some(h => h.name === p.name))
FilterBase(proxies, hy2List) ==
    SelectSeq(proxies, LAMBDA p : ~(\E i \in 1..Len(hy2List) : hy2List[i].name = p.name))

\* mutant of MergeProxies: the base list first, the supplemental records appended
MergeProxiesBaseFirst(proxies, hy2List) == FilterBase(proxies, hy2List) \o hy2List

\* hy2ConfigList.concat(filtered base)
MergeProxies(proxies, hy2List) == hy2List \o FilterBase(proxies, hy2List)

----------------------------------------------------------------------------
(* Group reordering engine *)

\* groups up to this size are left untouched
GroupFloor == 3

\* mutant of IsFixedGroup: an off-by-one comparison, proxies.length < 3
IsFixedGroupStrict(proxies) == Len(proxies) < GroupFloor

\* proxies.length <= 3: the group is skipped
IsFixedGroup(proxies) == Len(proxies) <= GroupFloor

\* mutant of IsGame: the DIRECT sentinel is not excepted from the E marker
IsGameNoSentinel(name) == Includes(name, "G") \/ Includes(name, "E")

\* name.includes("G") || name.includes("E") && name !== "DIRECT"
IsGame(name) == Includes(name, "G") \/ (Includes(name, "E") /\ name # DIRECT)

GameGroup(proxies) == SelectSeq(proxies, LAMBDA n : IsGame(n))

OtherGroup(proxies) == SelectSeq(proxies, LAMBDA n : ~IsGame(n))

RECURSIVE ScanFrom(_, _, _)
\* while (groupsName.includes(checkNameTemp)) { insertPlace++; ... }
ScanFrom(proxies, groupsName, insertPlace) ==
    IF At(proxies, insertPlace) \in Range(groupsName)
    THEN ScanFrom(proxies, groupsName, insertPlace + 1)
    ELSE insertPlace

\* mutant of InsertPlace: the cursor starts at 1
InsertPlaceFromOne(proxies, groupsName) == ScanFrom(proxies, groupsName, 1)

\* let insertPlace = 0, and the while loop
InsertPlace(proxies, groupsName) == ScanFrom(proxies, groupsName, 0)

\* proxies.splice(insertPlace, insertPlace, ...hy2 names, ...gameGroup)
SpliceGroup(otherGroup, insertPlace, hy2Names, gameGroup) ==
    Splice(otherGroup, insertPlace, insertPlace, hy2Names \o gameGroup)

\* one iteration of the forEach over content["proxy-groups"]
ReorderFull(proxies, groupsName, hy2Names) ==
    IF IsFixedGroup(proxies) THEN proxies
    ELSE LET otherGroup == OtherGroup(proxies)
             insertPlace == InsertPlace(otherGroup, groupsName)
         IN  Dedup(SpliceGroup(otherGroup, insertPlace, hy2Names, GameGroup(proxies)))

\* mutant of ReorderOnly: every group name of the list is kept, not only the leading run
ReorderOnlyAnyGroupName(proxies, groupsName, hy2Names) ==
    IF IsFixedGroup(proxies) THEN proxies
    ELSE SelectSeq(proxies, LAMBDA n : n \in Range(groupsName)) \o hy2Names

\* one iteration of the forEach over onlyHy2Content["proxy-groups"]
ReorderOnly(proxies, groupsName, hy2Names) ==
    IF IsFixedGroup(proxies) THEN proxies
    ELSE SubSeq(proxies, 1, InsertPlace(proxies, groupsName)) \o hy2Names

----------------------------------------------------------------------------
(* Inputs of a run *)

\* all sequences over S of length at most n
SeqUpTo(S, n) == UNION {[1..k -> S] : k \in 0..n}

\* sequences without a repeated element
UniqueSeqUpTo(S, n) ==
    {q \in SeqUpTo(S, n) : \A i, j \in 1..Len(q) : i # j => q[i] # q[j]}

\* descriptors HY2_CONFIG is made of: well-formed ones with insecure=0,
\* insecure=1 and no insecure field, and one the regex skips
DescriptorPool ==
    {Descriptor(nX, "0", TRUE), Descriptor(nA, "1", TRUE), Descriptor(nB, "none", TRUE),
     Descriptor(nB, "none", FALSE)}

\* HY2_CONFIG: << >> is the unset (or empty) variable
Hy2Configs == SeqUpTo(DescriptorPool, MaxDescriptors)

\* CLASH_ADDITIONAL_RULES: the text, by what JSON.parse makes of it.
\* items: the elements of a list, or the characters of a string
RulesText(kind, items) == [kind |-> kind, items |-> items]

RulesTexts ==
    {RulesText("absent", <<>>), RulesText("unparseable", <<>>),
     RulesText("number", <<>>), RulesText("object", <<>>),
     RulesText("string", <<"a", "b">>), RulesText("list", <<"r1", "r2">>)}

Envs ==
    [SUB_URL : BOOLEAN, HY2_CONFIG : Hy2Configs, HY2_SUB_URL : BOOLEAN,
     NEED_ONLY_HY2 : BOOLEAN, NEED_OUTPUT_FILE : BOOLEAN,
     CLASH_ADDITIONAL_RULES : RulesTexts, ossClient : BOOLEAN]

BaseRecord(name) == ProxyRecord(name, "base", FALSE)

SubRecord(name) == ProxyRecord(name, "sub", FALSE)

BaseRules == <<"MATCH">>

\* the primary documents of a run: proxy lists with and without a name that
\* collides with a supplemental name, a group of 3 and groups of more than 3 members
RunBases == {<<>>, <<BaseRecord(nA), BaseRecord(nB)>>}

RunGroups ==
    {<<Group(nP, <<nA, nB, DIRECT>>), Group(nPG, <<nP, nA, nB, nG, DIRECT>>)>>,
     <<Group(nP, <<nA, nB, nE, nA>>)>>}

RunDocs == {Doc(b, g, BaseRules) : b \in RunBases, g \in RunGroups}

\* what yaml.load returns for the primary text
PrimaryLoads == RunDocs \cup {ValueDoc}

\* the supplemental subscription documents
SubDocs == {Doc(<<SubRecord(n)>>, <<>>, <<>>) : n \in {nX, nA}} \cup {Doc(<<>>, <<>>, <<>>)}

\* what one transport attempt yields: the call throws, or returns an HTML page,
\* an empty text, or a text that is not HTML
Responses == {"throw", "html", "empty", "yaml"}

\* result.includes("<!DOCTYPE html>") || result.includes("<html")
IsHtml(r) == r = "html"

\* JavaScript truthiness of a returned value: a text that is not empty
Truthy(r) == r \notin {"empty", "null", "undefined"}

Attempt(strategy, idx, outcome) ==
    [strategy |-> strategy, idx |-> idx, outcome |-> outcome]

----------------------------------------------------------------------------
(* The run *)

Init ==
    /\ env \in Envs
    /\ pc = "start"
    /\ result = "running"
    /\ loaded = NullDoc
    /\ content = NullDoc
    /\ onlyHy2Content = NullDoc
    /\ hy2Proxies = <<>>
    /\ hy2ConfigList = <<>>
    /\ fetching = "none"
    /\ attempts = <<>>
    /\ proxyIdx = 0
    /\ fetched = "undefined"
    /\ currentHy2Process = 0
    /\ alive = {}
    /\ spawned = 0
    /\ written = {}
    /\ puts = <<>>
    /\ logged = {}

\* stopHy2Proxy: kill the current helper, if any, and forget it
StopHy2Proxy ==
    /\ alive' = IF currentHy2Process # 0 THEN alive \ {currentHy2Process} ELSE alive
    /\ currentHy2Process' = 0

\* the promise of reNewClashSub resolves
Resolve ==
    /\ pc' = "done"
    /\ result' = "resolved"

\* an exception leaves reNewClashSub: its promise rejects
Reject ==
    /\ pc' = "done"
    /\ result' = "rejected"

\* the log lines the model keeps
LogNoSubUrl == "SUB_URL is not defined"
LogNoPrimary == "no clash subscription"
LogNoHy2Sub == "no hy2 subscription"
LogRulesAdded == "CLASH_ADDITIONAL_RULES added"
LogRulesError == "CLASH_ADDITIONAL_RULES format error"
LogUploadFailed == "upload to OSS failed"
LogDone == "task done"

\* reNewClashSub up to the first await
Start ==
    /\ pc = "start"
    /\ hy2Proxies' = ParseHy2Config(env.HY2_CONFIG)
    /\ IF env.SUB_URL
       THEN /\ pc' = "direct"
            /\ fetching' = "primary"
            /\ UNCHANGED <<result, logged>>
       ELSE /\ Resolve
            /\ logged' = logged \cup {LogNoSubUrl}
            /\ UNCHANGED fetching
    /\ UNCHANGED <<env, loaded, content, onlyHy2Content, hy2ConfigList, attempts, proxyIdx,
                   fetched, currentHy2Process, alive, spawned, written, puts>>

----------------------------------------------------------------------------
(* fetchSubData: the transport chain *)

\* fetchSubData, first strategy: curl run directly through execSync
FetchDirect ==
    /\ pc = "direct"
    /\ \E r \in Responses :
        /\ attempts' = Append(attempts, Attempt("direct", 0, r))
        /\ IF r = "throw" \/ IsHtml(r)
           THEN /\ fetched' = fetched
                /\ IF Len(hy2Proxies) > 0
                   THEN pc' = "startProxy" /\ proxyIdx' = 1
                   ELSE pc' = "native" /\ proxyIdx' = proxyIdx
           ELSE /\ fetched' = r
                /\ pc' = "return"
                /\ proxyIdx' = proxyIdx
    /\ UNCHANGED <<env, loaded, result, content, onlyHy2Content, hy2Proxies, hy2ConfigList,
                   fetching, currentHy2Process, alive, spawned, written, puts, logged>>

\* fetchSubDataWithHy2Proxy after the proxy at proxyIdx gave nothing: the next
\* proxy, or stopHy2Proxy and null once the list is exhausted. cur and al are
\* the helper handle and the live helpers at that point
ProxyFailed(cur, al) ==
    IF proxyIdx < Len(hy2Proxies)
    THEN /\ pc' = "startProxy"
         /\ proxyIdx' = proxyIdx + 1
         /\ currentHy2Process' = cur
         /\ alive' = al
    ELSE /\ pc' = "native"
         /\ proxyIdx' = proxyIdx
         /\ currentHy2Process' = 0
         /\ alive' = IF cur # 0 THEN al \ {cur} ELSE al

\* what starting a helper can come to: the configuration file cannot be written,
\* spawn throws, the process does not come up, its connection test fails, or it runs
StartOutcomes == {"writeThrows", "spawnThrows", "spawnError", "testFails", "started"}

\* mutant of AliveAfterStop: a helper is started without stopping the previous one
AliveWithoutStop == alive

\* the helpers alive once startHy2Proxy has made its first call, stopHy2Proxy()
AliveAfterStop == IF currentHy2Process # 0 THEN alive \ {currentHy2Process} ELSE alive

\* startHy2Proxy for the proxy at proxyIdx, and the caller's reaction to false
StartHy2Proxy ==
    /\ pc = "startProxy"
    /\ \E o \in StartOutcomes :
        LET stopped == AliveAfterStop
            pid == spawned + 1
        IN  CASE o = "writeThrows" ->
                    /\ currentHy2Process' = 0
                    /\ alive' = stopped
                    /\ Reject
                    /\ UNCHANGED <<spawned, attempts, proxyIdx>>
              [] o = "spawnThrows" ->
                    /\ ProxyFailed(0, stopped)
                    /\ attempts' = Append(attempts, Attempt("proxy", proxyIdx, "startFailed"))
                    /\ UNCHANGED <<spawned, result>>
              [] o = "spawnError" ->
                    /\ ProxyFailed(pid, stopped)
                    /\ spawned' = pid
                    /\ attempts' = Append(attempts, Attempt("proxy", proxyIdx, "startFailed"))
                    /\ UNCHANGED result
              [] o = "testFails" ->
                    /\ ProxyFailed(pid, stopped \cup {pid})
                    /\ spawned' = pid
                    /\ attempts' = Append(attempts, Attempt("proxy", proxyIdx, "startFailed"))
                    /\ UNCHANGED result
              [] o = "started" ->
                    /\ currentHy2Process' = pid
                    /\ alive' = stopped \cup {pid}
                    /\ spawned' = pid
                    /\ pc' = "socks"
                    /\ UNCHANGED <<attempts, proxyIdx, result>>
    /\ UNCHANGED <<env, loaded, content, onlyHy2Content, hy2Proxies, hy2ConfigList, fetching,
                   fetched, written, puts, logged>>

\* mutant of Socks5Result: the HTML check is missing
Socks5ResultNoHtmlCheck(r) == IF r = "throw" THEN "null" ELSE r

\* fetchWithSocks5Proxy: null when curl throws or returns HTML, else the text
Socks5Result(r) == IF r = "throw" \/ IsHtml(r) THEN "null" ELSE r

\* fetchWithSocks5Proxy through the started helper, and `if (result)` of the caller
FetchWithSocks5Proxy ==
    /\ pc = "socks"
    /\ \E r \in Responses :
        /\ attempts' = Append(attempts, Attempt("proxy", proxyIdx, r))
        /\ IF Truthy(Socks5Result(r))
           THEN /\ fetched' = Socks5Result(r)
                /\ pc' = "return"
                /\ UNCHANGED <<proxyIdx, currentHy2Process, alive>>
           ELSE /\ fetched' = fetched
                /\ ProxyFailed(currentHy2Process, alive)
    /\ UNCHANGED <<env, loaded, result, content, onlyHy2Content, hy2Proxies, hy2ConfigList,
                   fetching, spawned, written, puts, logged>>

\* fetchSubData, last strategy: the native fetch
FetchNative ==
    /\ pc = "native"
    /\ \E r \in Responses :
        /\ attempts' = Append(attempts, Attempt("native", 0, r))
        /\ fetched' = IF r = "throw" \/ IsHtml(r) THEN "undefined" ELSE r
    /\ pc' = "return"
    /\ UNCHANGED <<env, loaded, result, content, onlyHy2Content, hy2Proxies, hy2ConfigList,
                   fetching, proxyIdx, currentHy2Process, alive, spawned, written,
                   puts, logged>>

----------------------------------------------------------------------------
(* reNewClashSub after the primary retrieval *)

\* mutant of PrimaryFetched: the early return is missing after the log line
PrimaryFetchedNoReturn ==
    /\ pc = "return"
    /\ fetching = "primary"
    /\ logged' = IF ~Truthy(fetched) THEN logged \cup {LogNoPrimary} ELSE logged
    /\ pc' = "load"
    /\ attempts' = <<>>
    /\ UNCHANGED <<env, loaded, result, content, onlyHy2Content, hy2Proxies, hy2ConfigList,
                   fetching, proxyIdx, fetched, currentHy2Process, alive, spawned,
                   written, puts>>

\* `if (!yamlContent) return` after the primary fetchSubData call
PrimaryFetched ==
    /\ pc = "return"
    /\ fetching = "primary"
    /\ IF ~Truthy(fetched)
       THEN /\ logged' = logged \cup {LogNoPrimary}
            /\ Resolve
       ELSE /\ pc' = "load"
            /\ UNCHANGED <<logged, result>>
    /\ attempts' = <<>>
    /\ UNCHANGED <<env, loaded, content, onlyHy2Content, hy2Proxies, hy2ConfigList, fetching,
                   proxyIdx, fetched, currentHy2Process, alive, spawned, written, puts>>

\* yaml.load(yamlContent) and the cloneDeep for the supplemental-only document
LoadPrimary ==
    /\ pc = "load"
    /\ \/ /\ Reject
          /\ UNCHANGED <<loaded, content, onlyHy2Content>>
       \/ \E d \in PrimaryLoads :
             /\ loaded' = d
             /\ content' = d
             /\ onlyHy2Content' = IF env.NEED_ONLY_HY2 THEN d ELSE NullDoc
             /\ pc' = "rules"
             /\ UNCHANGED result
    /\ UNCHANGED <<env, hy2Proxies, hy2ConfigList, fetching, attempts, proxyIdx,
                   fetched, currentHy2Process, alive, spawned, written, puts, logged>>

\* JSON.parse(text) throws
JsonParseThrows(text) == text.kind = "unparseable"

\* the spread ...value works on the parsed value: lists and strings are iterable
Iterable(text) == text.kind \in {"list", "string"}

\* content.rules.unshift(...JSON.parse(text)) throws inside the try
UnshiftThrows(doc, text) ==
    doc.kind # "doc" \/ JsonParseThrows(text) \/ ~Iterable(text)

\* the rules after content.rules.unshift(...JSON.parse(text))
Unshift(rules, text) == text.items \o rules

\* mutant of ExtendRules: the supplemental-only document shares the rules of
\* content instead of holding a deep copy, so the unshift shows in both
ExtendRulesShared ==
    /\ pc = "rules"
    /\ LET text == env.CLASH_ADDITIONAL_RULES
       IN  IF text.kind = "absent"
           THEN UNCHANGED <<content, onlyHy2Content, logged>>
           ELSE IF UnshiftThrows(content, text)
                THEN /\ logged' = logged \cup {LogRulesError}
                     /\ UNCHANGED <<content, onlyHy2Content>>
                ELSE /\ content' = [content EXCEPT !.rules = Unshift(@, text)]
                     /\ onlyHy2Content' =
                            IF env.NEED_ONLY_HY2
                            THEN [onlyHy2Content EXCEPT !.rules = Unshift(@, text)]
                            ELSE onlyHy2Content
                     /\ logged' = logged \cup {LogRulesAdded}
    /\ pc' = IF env.HY2_CONFIG # <<>> \/ env.HY2_SUB_URL THEN "hy2" ELSE "write"
    /\ UNCHANGED <<env, loaded, result, hy2Proxies, hy2ConfigList, fetching,
                   attempts, proxyIdx, fetched, currentHy2Process, alive, spawned,
                   written, puts>>

\* the CLASH_ADDITIONAL_RULES block
ExtendRules ==
    /\ pc = "rules"
    /\ LET text == env.CLASH_ADDITIONAL_RULES
       IN  IF text.kind = "absent"
           THEN UNCHANGED <<content, logged>>
           ELSE IF UnshiftThrows(content, text)
                THEN /\ logged' = logged \cup {LogRulesError}
                     /\ UNCHANGED content
                ELSE /\ content' = [content EXCEPT !.rules = Unshift(@, text)]
                     /\ logged' = logged \cup {LogRulesAdded}
    /\ pc' = IF env.HY2_CONFIG # <<>> \/ env.HY2_SUB_URL THEN "hy2" ELSE "write"
    /\ UNCHANGED <<env, loaded, result, onlyHy2Content, hy2Proxies, hy2ConfigList, fetching,
                   attempts, proxyIdx, fetched, currentHy2Process, alive, spawned,
                   written, puts>>

\* the records of HY2_CONFIG, then the supplemental subscription if one is configured
BuildHy2List ==
    /\ pc = "hy2"
    /\ hy2ConfigList' = DescriptorRecords(env.HY2_CONFIG)
    /\ IF env.HY2_SUB_URL
       THEN /\ pc' = "direct"
            /\ fetching' = "sub"
            /\ fetched' = "undefined"
       ELSE /\ pc' = "merge"
            /\ UNCHANGED <<fetching, fetched>>
    /\ UNCHANGED <<env, loaded, result, content, onlyHy2Content, hy2Proxies, attempts, proxyIdx,
                   currentHy2Process, alive, spawned, written, puts, logged>>

\* mutant of Hy2SubFetched: the early return leaves the helper running, as in
\* the version of the script without stopHy2Proxy
Hy2SubFetchedNoStop ==
    /\ pc = "return"
    /\ fetching = "sub"
    /\ IF ~Truthy(fetched)
       THEN /\ logged' = logged \cup {LogNoHy2Sub}
            /\ Resolve
       ELSE /\ pc' = "loadSub"
            /\ UNCHANGED <<logged, result>>
    /\ attempts' = <<>>
    /\ UNCHANGED <<env, loaded, content, onlyHy2Content, hy2Proxies, hy2ConfigList, fetching,
                   proxyIdx, fetched, currentHy2Process, alive, spawned, written, puts>>

\* `if (!hy2SubYamlContent) { stopHy2Proxy(); return }` after the second fetchSubData call
Hy2SubFetched ==
    /\ pc = "return"
    /\ fetching = "sub"
    /\ IF ~Truthy(fetched)
       THEN /\ logged' = logged \cup {LogNoHy2Sub}
            /\ StopHy2Proxy
            /\ Resolve
       ELSE /\ pc' = "loadSub"
            /\ UNCHANGED <<logged, result, currentHy2Process, alive>>
    /\ attempts' = <<>>
    /\ UNCHANGED <<env, loaded, content, onlyHy2Content, hy2Proxies, hy2ConfigList, fetching,
                   proxyIdx, fetched, spawned, written, puts>>

\* yaml.load of the supplemental subscription and the concat of its proxies
LoadHy2Sub ==
    /\ pc = "loadSub"
    /\ \/ /\ Reject
          /\ UNCHANGED hy2ConfigList
       \/ \E d \in SubDocs :
             /\ hy2ConfigList' = hy2ConfigList \o d.proxies
             /\ pc' = "merge"
             /\ UNCHANGED result
    /\ UNCHANGED <<env, loaded, content, onlyHy2Content, hy2Proxies, fetching, attempts,
                   proxyIdx, fetched, currentHy2Process, alive, spawned, written, puts,
                   logged>>

\* the merge of the proxy lists; a load result without a proxy list makes
\* content.proxies.filter throw
Merge ==
    /\ pc = "merge"
    /\ IF content.kind # "doc"
       THEN /\ Reject
            /\ UNCHANGED <<content, onlyHy2Content>>
       ELSE /\ content' = [content EXCEPT !.proxies = MergeProxies(@, hy2ConfigList)]
            /\ onlyHy2Content' =
                  IF onlyHy2Content.kind = "null" THEN onlyHy2Content
                  ELSE [onlyHy2Content EXCEPT !.proxies = hy2ConfigList]
            /\ pc' = "groups"
            /\ UNCHANGED result
    /\ UNCHANGED <<env, loaded, hy2Proxies, hy2ConfigList, fetching, attempts, proxyIdx,
                   fetched, currentHy2Process, alive, spawned, written, puts, logged>>

\* content["proxy-groups"].map(({ name }) => name)
GroupsName(doc) == NamesOf(doc.groups)

\* the forEach over content["proxy-groups"]
ReorderedFull(groups, groupsName, hy2Names) ==
    [i \in 1..Len(groups) |->
        [groups[i] EXCEPT !.proxies = ReorderFull(@, groupsName, hy2Names)]]

\* the forEach over onlyHy2Content["proxy-groups"]
ReorderedOnly(groups, groupsName, hy2Names) ==
    [i \in 1..Len(groups) |->
        [groups[i] EXCEPT !.proxies = ReorderOnly(@, groupsName, hy2Names)]]

\* the reordering of the groups of both documents
ReorderGroups ==
    /\ pc = "groups"
    /\ LET groupsName == GroupsName(content)
           hy2Names == NamesOf(hy2ConfigList)
       IN  /\ content' = [content EXCEPT !.groups = ReorderedFull(@, groupsName, hy2Names)]
           /\ onlyHy2Content' =
                 IF onlyHy2Content.kind = "null" THEN onlyHy2Content
                 ELSE [onlyHy2Content EXCEPT
                          !.groups = ReorderedOnly(@, groupsName, hy2Names)]
    /\ pc' = "write"
    /\ UNCHANGED <<env, loaded, result, hy2Proxies, hy2ConfigList, fetching, attempts, proxyIdx,
                   fetched, currentHy2Process, alive, spawned, written, puts, logged>>

----------------------------------------------------------------------------
(* Publishing *)

ConfigFile == "dist/config.yaml"
Hy2File == "dist/hy2.yaml"
AllKey == "all.yaml"
Hy2Key == "hy2.yaml"

\* how the local writes can end: both succeed, or mkdirSync / the first
\* writeFileSync throws, or the second writeFileSync throws
WriteOutcomes == {"ok", "configThrows", "hy2Throws"}

\* yaml.dump of both documents and the writes into dist/
WriteFiles ==
    /\ pc = "write"
    /\ IF env.NEED_OUTPUT_FILE \/ env.ossClient
       THEN \E o \in WriteOutcomes :
              CASE o = "ok" ->
                     /\ written' = written \cup {ConfigFile} \cup
                           (IF onlyHy2Content.kind # "null" THEN {Hy2File} ELSE {})
                     /\ pc' = "upload"
                     /\ UNCHANGED result
                [] o = "configThrows" ->
                     /\ Reject
                     /\ UNCHANGED written
                [] o = "hy2Throws" ->
                     /\ onlyHy2Content.kind # "null"
                     /\ written' = written \cup {ConfigFile}
                     /\ Reject
       ELSE /\ pc' = "upload"
            /\ UNCHANGED <<written, result>>
    /\ UNCHANGED <<env, loaded, content, onlyHy2Content, hy2Proxies, hy2ConfigList, fetching,
                   attempts, proxyIdx, fetched, currentHy2Process, alive, spawned,
                   puts, logged>>

\* where the run goes after ossClient.put("all.yaml") returned or threw
AfterPutAll(ok) ==
    IF ok /\ env.NEED_ONLY_HY2 THEN "uploadOnly" ELSE "cleanup"

\* ossClient.put("all.yaml", "dist/config.yaml") inside the try
Upload ==
    /\ pc = "upload"
    /\ IF env.ossClient
       THEN \E ok \in BOOLEAN :
              /\ puts' = Append(puts, AllKey)
              /\ logged' = IF ok THEN logged ELSE logged \cup {LogUploadFailed}
              /\ pc' = AfterPutAll(ok)
       ELSE /\ pc' = "cleanup"
            /\ UNCHANGED <<puts, logged>>
    /\ UNCHANGED <<env, loaded, result, content, onlyHy2Content, hy2Proxies, hy2ConfigList,
                   fetching, attempts, proxyIdx, fetched, currentHy2Process, alive,
                   spawned, written>>

\* ossClient.put("hy2.yaml", "dist/hy2.yaml") inside the same try
UploadOnly ==
    /\ pc = "uploadOnly"
    /\ \E ok \in BOOLEAN :
          /\ puts' = Append(puts, Hy2Key)
          /\ logged' = IF ok THEN logged ELSE logged \cup {LogUploadFailed}
    /\ pc' = "cleanup"
    /\ UNCHANGED <<env, loaded, result, content, onlyHy2Content, hy2Proxies, hy2ConfigList,
                   fetching, attempts, proxyIdx, fetched, currentHy2Process, alive,
                   spawned, written>>

\* rmSync("dist") unless the files are kept, stopHy2Proxy, end of the run
Cleanup ==
    /\ pc = "cleanup"
    /\ IF ~env.NEED_OUTPUT_FILE
       THEN \E removed \in BOOLEAN : written' = IF removed THEN {} ELSE written
       ELSE UNCHANGED written
    /\ StopHy2Proxy
    /\ logged' = logged \cup {LogDone}
    /\ Resolve
    /\ UNCHANGED <<env, loaded, content, onlyHy2Content, hy2Proxies, hy2ConfigList, fetching,
                   attempts, proxyIdx, fetched, spawned, puts>>

----------------------------------------------------------------------------
(* Specifications *)

Next ==
    \/ Start
    \/ FetchDirect
    \/ StartHy2Proxy
    \/ FetchWithSocks5Proxy
    \/ FetchNative
    \/ PrimaryFetched
    \/ LoadPrimary
    \/ ExtendRules
    \/ BuildHy2List
    \/ Hy2SubFetched
    \/ LoadHy2Sub
    \/ Merge
    \/ ReorderGroups
    \/ WriteFiles
    \/ Upload
    \/ UploadOnly
    \/ Cleanup

\* a whole run of reNewClashSub, from every environment
Spec == Init /\ [][Next]_vars

----------------------------------------------------------------------------
(* The merge and reordering engines on broad inputs *)

MemberNames == {nA, nX, nG, nE, DIRECT, nP, nPG}

ProxyNames == {nA, nB, nX}

EngineConfigs ==
    UniqueSeqUpTo({Descriptor(nX, "0", TRUE), Descriptor(nA, "1", TRUE)}, MaxProxies)

EngineSubs ==
    {[i \in 1..Len(q) |-> SubRecord(q[i])] : q \in UniqueSeqUpTo(ProxyNames, MaxProxies)}

EngineBases ==
    {[i \in 1..Len(q) |-> BaseRecord(q[i])] : q \in UniqueSeqUpTo(ProxyNames, MaxProxies)}

EngineGroups ==
    {<<Group(nP, m)>> : m \in SeqUpTo(MemberNames, MaxMembers)}
    \cup {<<Group(nP, m), Group(nPG, <<nP, nA>>)>> : m \in SeqUpTo(MemberNames, MaxMembers)}

\* every pair of proxy lists with a few groups, and every group with a few lists
EngineInputs ==
    [cfg : EngineConfigs, sub : EngineSubs, base : EngineBases, groups : RunGroups]
    \cup [cfg : {<<>>}, sub : {<<>>, <<SubRecord(nX)>>, <<SubRecord(nX), SubRecord(nA)>>},
          base : {<<BaseRecord(nA)>>}, groups : EngineGroups]

\* the run at the merge: both documents retrieved and loaded, the supplemental
\* list built from HY2_CONFIG and the supplemental subscription
InitEngine ==
    \E in \in EngineInputs, only \in BOOLEAN :
        /\ env = [SUB_URL |-> TRUE, HY2_CONFIG |-> in.cfg, HY2_SUB_URL |-> TRUE,
                  NEED_ONLY_HY2 |-> only, NEED_OUTPUT_FILE |-> FALSE,
                  CLASH_ADDITIONAL_RULES |-> RulesText("absent", <<>>),
                  ossClient |-> TRUE]
        /\ pc = "merge"
        /\ result = "running"
        /\ loaded = Doc(in.base, in.groups, BaseRules)
        /\ content = loaded
        /\ onlyHy2Content = IF only THEN loaded ELSE NullDoc
        /\ hy2Proxies = ParseHy2Config(in.cfg)
        /\ hy2ConfigList = DescriptorRecords(in.cfg) \o in.sub
        /\ fetching = "sub"
        /\ attempts = <<>>
        /\ proxyIdx = 0
        /\ fetched = "yaml"
        /\ currentHy2Process = 0
        /\ alive = {}
        /\ spawned = 0
        /\ written = {}
        /\ puts = <<>>
        /\ logged = {}

NextEngine ==
    \/ Merge
    \/ ReorderGroups

SpecEngine == InitEngine /\ [][NextEngine]_vars

----------------------------------------------------------------------------
(* Properties of the merge engine *)

\* the run is past the merge of the proxy lists
Merged == pc \in {"groups", "write", "upload", "uploadOnly", "cleanup"}

\* the run is past the group reordering, with the supplemental branch taken or not
Reordered == pc \in {"write", "upload", "uploadOnly", "cleanup"} /\ content.kind = "doc"

\* the group reordering has run: it sits inside the branch taken when HY2_CONFIG
\* or HY2_SUB_URL is set
ReorderRan == Reordered /\ (env.HY2_CONFIG # <<>> \/ env.HY2_SUB_URL)

\* the positions of the base list whose name no supplemental record carries
KeptPositions(base, hy2List) ==
    {i \in 1..Len(base) : base[i].name \notin Range(NamesOf(hy2List))}

\* the k-th smallest element of a set of positions
KthPosition(positions, k) ==
    CHOOSE i \in positions : Cardinality({j \in positions : j < i}) = k - 1

\* C1: after the merge the proxies are the supplemental list in its order,
\* followed by exactly the base records whose name is no supplemental name, in
\* the base's relative order; with disjoint names this is S ++ B
MergeKeepsOrder ==
    Merged /\ loaded.kind = "doc" =>
        LET base == loaded.proxies
            kept == KeptPositions(base, hy2ConfigList)
            n == Len(hy2ConfigList)
        IN  /\ Len(content.proxies) = n + Cardinality(kept)
            /\ \A i \in 1..n : content.proxies[i] = hy2ConfigList[i]
            /\ \A k \in 1..Cardinality(kept) :
                  content.proxies[n + k] = base[KthPosition(kept, k)]
            /\ (Range(NamesOf(base)) \cap Range(NamesOf(hy2ConfigList)) = {}
                   => content.proxies = hy2ConfigList \o base)

\* a merge where one base record collides with a supplemental name and is
\* dropped, and another base record is kept behind the supplemental records
MergeKeepsOrderWitness ==
    /\ pc = "groups"
    /\ Len(hy2ConfigList) = 2
    /\ Len(loaded.proxies) = 2
    /\ Cardinality(KeptPositions(loaded.proxies, hy2ConfigList)) = 1
    /\ Len(content.proxies) = 3

----------------------------------------------------------------------------
(* Properties of the group reordering engine *)

\* the members the document was loaded with, for the group at position i
OriginalMembers(i) == loaded.groups[i].proxies

\* C2: in the full document a group of more than 3 members is the
\* deduplicated pure insert of the supplemental names and the tagged names at
\* the cursor: no member of the working order is removed
SpliceIsPureInsert ==
    ReorderRan =>
        \A i \in 1..Len(content.groups) :
            Len(OriginalMembers(i)) > GroupFloor =>
                LET untagged == OtherGroup(OriginalMembers(i))
                    tagged == GameGroup(OriginalMembers(i))
                    c == InsertPlace(untagged, GroupsName(loaded))
                IN  content.groups[i].proxies =
                        Dedup(SubSeq(untagged, 1, c) \o NamesOf(hy2ConfigList)
                              \o tagged \o SubSeq(untagged, c + 1, Len(untagged)))

\* C4: a group of 3 or fewer members has the member list it was loaded with,
\* in the full document and in the supplemental-only document
SmallGroupsUntouched ==
    Reordered =>
        \A i \in 1..Len(loaded.groups) :
            Len(OriginalMembers(i)) <= 3 =>
                /\ content.groups[i].proxies = OriginalMembers(i)
                /\ onlyHy2Content.kind = "doc" =>
                      onlyHy2Content.groups[i].proxies = OriginalMembers(i)

\* a reordered document pair with a group of exactly 3 members, beside a
\* supplemental list that is not empty
SmallGroupsUntouchedWitness ==
    /\ pc = "write"
    /\ onlyHy2Content.kind = "doc"
    /\ hy2ConfigList # <<>>
    /\ \E i \in 1..Len(loaded.groups) : Len(OriginalMembers(i)) = 3

\* the length of the maximal leading run of known group names of members
IsLeadingRun(members, groupsName, k) ==
    /\ k \in 0..Len(members)
    /\ \A j \in 1..k : members[j] \in Range(groupsName)
    /\ k < Len(members) => members[k + 1] \notin Range(groupsName)

\* C5: in the supplemental-only document a group of more than 3 members is
\* the maximal leading run of group names of its original members followed by
\* the supplemental names; every other member is discarded
OnlyVariantReplacesMembers ==
    ReorderRan /\ onlyHy2Content.kind = "doc" =>
        \A i \in 1..Len(loaded.groups) :
            Len(OriginalMembers(i)) > 3 =>
                \E k \in 0..Len(OriginalMembers(i)) :
                    /\ IsLeadingRun(OriginalMembers(i), GroupsName(loaded), k)
                    /\ onlyHy2Content.groups[i].proxies =
                          SubSeq(OriginalMembers(i), 1, k) \o NamesOf(hy2ConfigList)

\* a group of 4 members that starts with a group name, holds a second group
\* name behind a plain member, and is cut down to the leading name and [x]
OnlyVariantReplacesMembersWitness ==
    /\ pc = "write"
    /\ onlyHy2Content.kind = "doc"
    /\ NamesOf(hy2ConfigList) = <<nX>>
    /\ loaded.groups[1].proxies = <<nP, nA, nP, DIRECT>>
    /\ onlyHy2Content.groups[1].proxies = <<nP, nX>>

\* the names of a list of records are pairwise different
UniqueNames(list) ==
    \A i, j \in 1..Len(list) : i # j => list[i].name # list[j].name

\* the records of hy2ConfigList that came from the supplemental subscription
SubPart ==
    SubSeq(hy2ConfigList, Len(DescriptorRecords(env.HY2_CONFIG)) + 1, Len(hy2ConfigList))

\* C6: when the base list, the descriptor records and the supplemental
\* subscription each have unique names, every name occurs once in the merged
\* list, and a name of the supplemental set is carried by a supplemental record
MergedNamesUnique ==
    /\ Merged
    /\ loaded.kind = "doc"
    /\ UniqueNames(loaded.proxies)
    /\ UniqueNames(DescriptorRecords(env.HY2_CONFIG))
    /\ UniqueNames(SubPart)
    => /\ UniqueNames(content.proxies)
       /\ \A i \in 1..Len(content.proxies) :
             content.proxies[i].name \in Range(NamesOf(hy2ConfigList))
                 => content.proxies[i].server # "base"

----------------------------------------------------------------------------
(* Properties of the transport chain *)

\* the place of a strategy in the chain: direct, the proxies in order, native
Rank(a) ==
    CASE a.strategy = "direct" -> 0
      [] a.strategy = "proxy" -> a.idx
      [] a.strategy = "native" -> Len(hy2Proxies) + 1

\* direct first, then every proxy in descriptor order, then the native call
ChainInOrder ==
    /\ \A i \in 1..Len(attempts) :
          IF attempts[i].strategy = "native"
          THEN i = Len(attempts) /\ i >= 2
          ELSE Rank(attempts[i]) = i - 1
    /\ \A i \in 1..Len(attempts) :
          attempts[i].strategy = "native" /\ Len(attempts) > 1 =>
              Rank(attempts[i - 1]) = Len(hy2Proxies)

\* no HTML payload reaches the caller, and a returned text is the last attempt's
NoHtmlReturned ==
    pc = "return" =>
        /\ ~IsHtml(fetched)
        /\ fetched # "undefined" => attempts[Len(attempts)].outcome = fetched

----------------------------------------------------------------------------
(* Properties of the run *)

\* the CLASH_ADDITIONAL_RULES block has run
RulesDone == loaded.kind # "null" /\ pc # "rules"

\* C7: an extra-rules text that is no list literal is logged and leaves the
\* rules of the merged document as they were loaded
MalformedRulesIgnored ==
    /\ RulesDone
    /\ env.CLASH_ADDITIONAL_RULES.kind \in {"unparseable", "number", "object", "string"}
    => /\ LogRulesError \in logged
       /\ content.rules = loaded.rules

\* C8: when the supplemental-only artifact was requested and the upload of
\* the full document was attempted, the upload of the supplemental-only
\* document is attempted too, whether or not the first upload threw
OnlyUploadStillAttempted ==
    /\ pc = "done"
    /\ result = "resolved"
    /\ env.NEED_ONLY_HY2
    /\ AllKey \in Range(puts)
    => Hy2Key \in Range(puts)

\* C9: without a primary document (no SUB_URL, or a retrieval that yields
\* nothing) the run returns, and nothing is written or put
NoPrimaryNoOutput ==
    /\ ~env.SUB_URL => pc \in {"start", "done"} /\ result # "rejected"
                       /\ written = {} /\ puts = <<>>
    /\ fetching = "primary" /\ pc = "return" /\ ~Truthy(fetched) =>
           written = {} /\ puts = <<>>
    /\ LogNoPrimary \in logged =>
           pc = "done" /\ result = "resolved" /\ written = {} /\ puts = <<>>

\* a run that ended for want of the primary document although every other
\* input asks for output
NoPrimaryNoOutputWitness ==
    /\ pc = "done"
    /\ LogNoPrimary \in logged
    /\ env.ossClient /\ env.NEED_OUTPUT_FILE /\ env.NEED_ONLY_HY2
    /\ env.HY2_SUB_URL /\ env.HY2_CONFIG # <<>>

\* the primary text has been handed to reNewClashSub
PrimaryAcquired ==
    \/ fetching = "primary" /\ pc \notin {"direct", "startProxy", "socks", "native"}
         /\ Truthy(fetched)
    \/ fetching = "sub"

\* C10: once the primary text is acquired, the promise of the run never rejects
NoExceptionEscapes == PrimaryAcquired => result # "rejected"

----------------------------------------------------------------------------
(* Properties of the helper proxy process *)

\* C11: when a run has ended, by completion, early return or a failing stage,
\* no helper proxy process spawned during the run is still alive
NoHelperOutlivesRun == pc = "done" => alive = {}

----------------------------------------------------------------------------
(* Properties of the supplemental-only document *)

\* C12: whenever the supplemental-only document is produced, its proxies are
\* exactly the supplemental list in order, and so are empty when neither
\* HY2_CONFIG nor HY2_SUB_URL is configured
OnlyProxiesAreSupplemental ==
    Reordered /\ env.NEED_ONLY_HY2 =>
        /\ onlyHy2Content.kind = "doc"
        /\ onlyHy2Content.proxies = hy2ConfigList
        /\ (env.HY2_CONFIG = <<>> /\ ~env.HY2_SUB_URL => onlyHy2Content.proxies = <<>>)

----------------------------------------------------------------------------
(* Properties of the deduplication and of the cursor *)

\* the position of the first occurrence of name n in list s
FirstIndex(s, n) == CHOOSE i \in 1..Len(s) : s[i] = n /\ \A j \in 1..(i - 1) : s[j] # n

\* r holds every name of s once, in the order of the first occurrences in s
IsFirstOccurrences(r, s) ==
    /\ Range(r) = Range(s)
    /\ \A i, j \in 1..Len(r) : i < j => r[i] # r[j] /\ FirstIndex(s, r[i]) < FirstIndex(s, r[j])

\* the list the splice of the full variant leaves for the group at position i
SplicedMembers(i) ==
    LET untagged == OtherGroup(OriginalMembers(i))
    IN  SpliceGroup(untagged, InsertPlace(untagged, GroupsName(loaded)),
                    NamesOf(hy2ConfigList), GameGroup(OriginalMembers(i)))

\* C13: in the full document a reordered group of more than 3 members holds no
\* name twice, and its names stand in the order of their first occurrence in
\* the spliced list
ReorderedMembersDeduplicated ==
    ReorderRan =>
        \A i \in 1..Len(content.groups) :
            Len(OriginalMembers(i)) > GroupFloor =>
                IsFirstOccurrences(content.groups[i].proxies, SplicedMembers(i))

\* a group with a name repeated in its original members and with both
\* supplemental names among them: each name is kept at its first position
ReorderedMembersDeduplicatedWitness ==
    /\ pc = "write"
    /\ NamesOf(hy2ConfigList) = <<nX, nA>>
    /\ OriginalMembers(1) = <<nA, nX, nA, DIRECT>>
    /\ content.groups[1].proxies = <<nX, nA, DIRECT>>

\* C14: in the full document, for a group of more than 3 members, the known
\* group names of the maximal leading run of its original members come first
\* in the reordered list, before every supplemental name and every other
\* member, in their original relative order, whatever characters they contain
NestedGroupsStayFirst ==
    ReorderRan =>
        \A i \in 1..Len(content.groups) :
            Len(OriginalMembers(i)) > GroupFloor =>
                \A k \in 0..Len(OriginalMembers(i)) :
                    IsLeadingRun(OriginalMembers(i), GroupsName(loaded), k) =>
                        LET run == SubSeq(OriginalMembers(i), 1, k)
                            d == Cardinality(Range(run))
                        IN  /\ d <= Len(content.groups[i].proxies)
                            /\ IsFirstOccurrences(SubSeq(content.groups[i].proxies, 1, d), run)

\* the tag of spec 4.3 a: the name contains G, or contains E and is not DIRECT
HasTag(name) ==
    \/ \E j \in 1..Len(name) : name[j] = "G"
    \/ (\E j \in 1..Len(name) : name[j] = "E") /\ name # <<"D", "I", "R", "E", "C", "T">>

\* C15: in the full document, for a group of more than 3 members none of which
\* is a known group name, the cursor is 0 and the reordered members are the
\* deduplication of the supplemental names, then the tagged members, then the
\* untagged members, each in original relative order
NoGroupNameInsertsAtFront ==
    ReorderRan =>
        \A i \in 1..Len(content.groups) :
            /\ Len(OriginalMembers(i)) > GroupFloor
            /\ Range(OriginalMembers(i)) \cap Range(GroupsName(loaded)) = {}
            => LET tagged == SelectSeq(OriginalMembers(i), LAMBDA n : HasTag(n))
                   untagged == SelectSeq(OriginalMembers(i), LAMBDA n : ~HasTag(n))
               IN  /\ InsertPlace(untagged, GroupsName(loaded)) = 0
                   /\ IsFirstOccurrences(content.groups[i].proxies,
                                         NamesOf(hy2ConfigList) \o tagged \o untagged)

\* a group of 4 members without a group name, two of them tagged and one the
\* DIRECT sentinel, with one supplemental name
NoGroupNameInsertsAtFrontWitness ==
    /\ pc = "write"
    /\ NamesOf(hy2ConfigList) = <<nX>>
    /\ OriginalMembers(1) = <<nA, DIRECT, nG, nE>>
    /\ content.groups[1].proxies = <<nX, nG, nE, nA, DIRECT>>

----------------------------------------------------------------------------
(* Properties of the descriptor records *)

\* C16: the published record of every matched descriptor has skipCertVerify
\* true exactly when the descriptor carries insecure=0, and false when it
\* carries insecure=1 or no insecure field
SkipCertVerifyIffInsecureZero ==
    Merged /\ content.kind = "doc" =>
        LET matches == MatchAll(env.HY2_CONFIG)
        IN  \A i \in 1..Len(matches) :
                /\ content.proxies[i].name = matches[i].name
                /\ content.proxies[i].skipCertVerify = (matches[i].insecure = "0")
                /\ (matches[i].insecure \in {"1", "none"} => ~content.proxies[i].skipCertVerify)
                /\ (onlyHy2Content.kind = "doc" => onlyHy2Content.proxies[i] = content.proxies[i])

\* a run about to publish the record of a descriptor with insecure=0
SkipCertVerifyIffInsecureZeroWitness ==
    /\ pc = "write"
    /\ env.HY2_CONFIG = <<Descriptor(nX, "0", TRUE)>>
    /\ env.NEED_ONLY_HY2
    /\ content.proxies[1] = ProxyRecord(nX, "cfg", TRUE)

----------------------------------------------------------------------------
(* Properties of the transport chain *)

\* every strategy of the chain was attempted for the current retrieval, and
\* none of them gave a usable text
ChainExhausted ==
    /\ \E a \in Range(attempts) : a.strategy = "direct"
    /\ \A k \in 1..Len(hy2Proxies) :
           \E a \in Range(attempts) : a.strategy = "proxy" /\ a.idx = k
    /\ \E a \in Range(attempts) : a.strategy = "native"
    /\ \A a \in Range(attempts) : a.outcome \in {"throw", "html", "empty", "startFailed"}

\* C17: fetchSubData hands the caller no usable content only after the direct
\* invocation, every configured helper proxy and the native call were each
\* attempted and failed
UnavailableOnlyAfterExhaustion ==
    pc = "return" /\ ~Truthy(fetched) => ChainExhausted

\* C18: in both variants the cursor scan ends with a cursor between 0 and the
\* length of the working order, every position before the cursor holding a
\* group name and the position at the cursor, if there is one, not: 0 for an
\* empty working order, the length when every element is a group name
CursorStaysInBounds ==
    ReorderRan =>
        \A i \in 1..Len(loaded.groups) :
            Len(OriginalMembers(i)) > GroupFloor =>
                LET names == GroupsName(loaded)
                    untagged == SelectSeq(OriginalMembers(i), LAMBDA n : ~HasTag(n))
                    cursor == InsertPlace(untagged, names)
                    kept == Len(onlyHy2Content.groups[i].proxies) - Len(hy2ConfigList)
                IN  /\ IsLeadingRun(untagged, names, cursor)
                    /\ (untagged = <<>> => cursor = 0)
                    /\ (Range(untagged) \subseteq Range(names) => cursor = Len(untagged))
                    /\ (onlyHy2Content.kind = "doc" =>
                            /\ IsLeadingRun(OriginalMembers(i), names, kept)
                            /\ (Range(OriginalMembers(i)) \subseteq Range(names)
                                   => kept = Len(OriginalMembers(i))))

\* a group whose 4 members are all group names: the scan reads one position
\* past the end and stops at the length, in both variants
CursorStaysInBoundsWitness ==
    /\ pc = "write"
    /\ NamesOf(hy2ConfigList) = <<nX>>
    /\ OriginalMembers(1) = <<nP, nP, nP, nP>>
    /\ content.groups[1].proxies = <<nP, nX>>
    /\ onlyHy2Content.kind = "doc"
    /\ onlyHy2Content.groups[1].proxies = <<nP, nP, nP, nP, nX>>

----------------------------------------------------------------------------
(* Properties of the supplemental retrieval *)

\* C19: when the retrieval of the supplemental subscription yields no content,
\* the run ends there: its promise resolves, nothing was or is written or put,
\* whatever records HY2_CONFIG supplied, and no helper is left running
NoHy2SubEndsRun ==
    /\ fetching = "sub" /\ pc = "return" /\ ~Truthy(fetched) =>
           written = {} /\ puts = <<>>
    /\ LogNoHy2Sub \in logged =>
           /\ pc = "done" /\ result = "resolved"
           /\ written = {} /\ puts = <<>>
           /\ alive = {} /\ currentHy2Process = 0

\* a run ended for want of the supplemental subscription, after the primary
\* document was loaded, HY2_CONFIG gave a record and a helper had been started
NoHy2SubEndsRunWitness ==
    /\ pc = "done"
    /\ LogNoHy2Sub \in logged
    /\ loaded.kind = "doc"
    /\ hy2ConfigList # <<>>
    /\ spawned > 0
    /\ env.ossClient /\ env.NEED_OUTPUT_FILE

----------------------------------------------------------------------------
(* Properties of the extra rules *)

\* C21: extra rules that parse as a list stand in front of the base rules in
\* the merged document, while the rules of the supplemental-only document
\* always are the rules the base document was loaded with
ExtraRulesOnlyInFullDocument ==
    RulesDone /\ loaded.kind = "doc" =>
        /\ (env.CLASH_ADDITIONAL_RULES.kind = "list" =>
                content.rules = env.CLASH_ADDITIONAL_RULES.items \o loaded.rules)
        /\ (env.NEED_ONLY_HY2 =>
                onlyHy2Content.kind = "doc" /\ onlyHy2Content.rules = loaded.rules)

\* a run about to publish both documents, with a list of two extra rules in
\* front of the merged document's rules only
ExtraRulesOnlyInFullDocumentWitness ==
    /\ pc = "write"
    /\ env.NEED_ONLY_HY2
    /\ env.CLASH_ADDITIONAL_RULES = RulesText("list", <<"r1", "r2">>)
    /\ content.rules = <<"r1", "r2", "MATCH">>
    /\ onlyHy2Content.rules = <<"MATCH">>

====
